---------------------------- MODULE Spec2Model ----------------------------
(***************************************************************************)
(* A model of the configuration compiler src/config/build.rs: the build    *)
(* script that resolves a platform configuration file, merges it over      *)
(* defconfig.toml, injects the CPU count and generates config.rs.          *)
(*                                                                         *)
(* Text is modelled as a sequence of tokens.  Every string that comes from *)
(* an input (a key, a value, a comment, an environment variable, a file    *)
(* name) is a sequence of one-character strings; the fixed pieces of the   *)
(* format strings of the code are single tokens ("pub const ").            *)
(***************************************************************************)
EXTENDS Integers, Sequences, FiniteSets, TLC

VARIABLES
    env,          \* the inputs of a run: environment variables and files
    pc,           \* the position of main
    config_path,  \* the result of resolve_config_path
    config,       \* the toml_edit Table gen_config_rs works on
    idx,          \* the position of the loop over config.iter()
    output,       \* the Vec<u8> gen_config_rs assembles
    outFile,      \* the content of $OUT_DIR/config.rs
    writes,       \* how many times the output file was written
    run,          \* which invocation of the build script this is
    prevFile      \* the output file the previous invocation left

vars == <<env, pc, config_path, config, idx, output, outFile, writes, run, prevFile>>

(***************************************************************************)
(* Bounds of the model.                                                    *)
(***************************************************************************)
MaxLen == 3

\* Option<T>
None == [some |-> FALSE, v |-> <<>>]
Some(x) == [some |-> TRUE, v |-> x]

(***************************************************************************)
(* Strings.                                                                *)
(***************************************************************************)
RECURSIVE Replace(_, _, _)
\* str::replace(from, to) for a one-character pattern: every occurrence.
Replace(s, from, to) ==
    IF s = <<>> THEN <<>>
    ELSE (IF Head(s) = from THEN to ELSE <<Head(s)>>) \o Replace(Tail(s), from, to)

StartsWith(s, p) == Len(s) >= Len(p) /\ SubSeq(s, 1, Len(p)) = p

EndsWith(s, p) == Len(s) >= Len(p) /\ SubSeq(s, Len(s) - Len(p) + 1, Len(s)) = p

\* str::strip_prefix: None, or the rest.
StripPrefix(s, p) == IF StartsWith(s, p) THEN Some(SubSeq(s, Len(p) + 1, Len(s))) ELSE None

\* str::strip_suffix: None, or the rest.
StripSuffix(s, p) == IF EndsWith(s, p) THEN Some(SubSeq(s, 1, Len(s) - Len(p))) ELSE None

WhiteSpace == {" ", "\n", "\t", "\r"}

RECURSIVE TrimStart(_)
TrimStart(s) ==
    IF s # <<>> /\ Head(s) \in WhiteSpace THEN TrimStart(Tail(s)) ELSE s

RECURSIVE TrimEnd(_)
TrimEnd(s) ==
    IF s # <<>> /\ s[Len(s)] \in WhiteSpace THEN TrimEnd(SubSeq(s, 1, Len(s) - 1)) ELSE s

\* str::trim
Trim(s) == TrimEnd(TrimStart(s))

LowerCase == <<"a","b","c","d","e","f","g","h","i","j","k","l","m",
               "n","o","p","q","r","s","t","u","v","w","x","y","z">>
UpperCase == <<"A","B","C","D","E","F","G","H","I","J","K","L","M",
               "N","O","P","Q","R","S","T","U","V","W","X","Y","Z">>

UpperChar(c) ==
    IF \E i \in 1..Len(LowerCase) : LowerCase[i] = c
    THEN UpperCase[CHOOSE i \in 1..Len(LowerCase) : LowerCase[i] = c]
    ELSE c

\* str::to_uppercase
ToUpperCase(s) == [i \in 1..Len(s) |-> UpperChar(s[i])]

\* key.to_uppercase().replace('-', "_")
VarName(key) == Replace(ToUpperCase(key), "-", <<"_">>)

(***************************************************************************)
(* is_num: str::parse::<usize> and usize::from_str_radix.                  *)
(***************************************************************************)
\* the width of usize on the host that runs the build script
UsizeBits == 64

\* usize::MAX, 2^64 - 1, in decimal
UsizeMaxDec == <<"1","8","4","4","6","7","4","4","0","7",
                 "3","7","0","9","5","5","1","6","1","5">>

Digits == <<"0","1","2","3","4","5","6","7","8","9">>
HexLower == <<"a","b","c","d","e","f">>
HexUpper == <<"A","B","C","D","E","F">>

InSeq(c, q) == \E i \in 1..Len(q) : q[i] = c
IndexOf(c, q) == CHOOSE i \in 1..Len(q) : q[i] = c

\* char::to_digit(radix): is c a digit of the radix
IsDigit(c, radix) ==
    \/ InSeq(c, Digits)
    \/ radix = 16 /\ (InSeq(c, HexLower) \/ InSeq(c, HexUpper))

DigitVal(c) ==
    IF InSeq(c, Digits) THEN IndexOf(c, Digits) - 1
    ELSE IF InSeq(c, HexLower) THEN 9 + IndexOf(c, HexLower)
    ELSE 9 + IndexOf(c, HexUpper)

RECURSIVE StripZeros(_)
StripZeros(d) == IF d # <<>> /\ Head(d) = "0" THEN StripZeros(Tail(d)) ELSE d

RECURSIVE LexLeq(_, _)
\* a <= b for two digit strings of the same length
LexLeq(a, b) ==
    IF a = <<>> THEN TRUE
    ELSE IF DigitVal(Head(a)) # DigitVal(Head(b)) THEN DigitVal(Head(a)) < DigitVal(Head(b))
    ELSE LexLeq(Tail(a), Tail(b))

\* the checked_mul / checked_add of from_str_radix: the value is at most usize::MAX
FitsUsize(d, radix) ==
    LET z == StripZeros(d) IN
    IF radix = 16 THEN Len(z) <= UsizeBits \div 4
    ELSE \/ Len(z) < Len(UsizeMaxDec)
         \/ Len(z) = Len(UsizeMaxDec) /\ LexLeq(z, UsizeMaxDec)

\* usize::from_str_radix(s, radix).is_ok(): an optional '+', then one digit or
\* more, every character a digit of the radix, the value within usize
FromStrRadixOk(s, radix) ==
    LET d == IF s # <<>> /\ Head(s) = "+" THEN Tail(s) ELSE s IN
    /\ d # <<>>
    /\ \A i \in 1..Len(d) : IsDigit(d[i], radix)
    /\ FitsUsize(d, radix)

\* is_num without the replace('_', "")
is_num_keep_separators(s0) ==
    IF FromStrRadixOk(s0, 10) THEN TRUE
    ELSE IF StripPrefix(s0, <<"0","x">>).some
         THEN FromStrRadixOk(StripPrefix(s0, <<"0","x">>).v, 16)
         ELSE FALSE

is_num(s0) ==
    LET s == Replace(s0, "_", <<>>) IN
    IF FromStrRadixOk(s, 10) THEN TRUE
    ELSE IF StripPrefix(s, <<"0","x">>).some
         THEN FromStrRadixOk(StripPrefix(s, <<"0","x">>).v, 16)
         ELSE FALSE

(***************************************************************************)
(* The emitter of gen_config_rs.                                           *)
(***************************************************************************)
\* writeln!(output, ...)
Writeln(text) == text \o <<"\n">>

UsizeDecl(var_name, s) == <<"pub const ">> \o var_name \o <<": usize = ">> \o s \o <<";">>

StrDecl(var_name, s) == <<"pub const ">> \o var_name \o <<": &str = \"">> \o s \o <<"\";">>

\* the Value::String arm
EmitString(var_name, comments, s) ==
    Writeln(comments)
    \o (IF is_num(s) THEN Writeln(UsizeDecl(var_name, s)) ELSE Writeln(StrDecl(var_name, s)))


(***************************************************************************)
(* Item and Value of toml_edit: a string, an array of values, or anything  *)
(* else (an integer, a table, ...).                                        *)
(***************************************************************************)
StrItem(s) == [kind |-> "str", s |-> s, elems |-> <<>>]
ArrItem(elems) == [kind |-> "array", s |-> <<>>, elems |-> elems]
OtherItem == [kind |-> "other", s |-> <<>>, elems |-> <<>>]

\* the values inside an array: a string, an integer, an inner array
StrVal(s) == [kind |-> "str", s |-> s, vals |-> <<>>]
IntVal == [kind |-> "int", s |-> <<>>, vals |-> <<>>]
ArrVal(vals) == [kind |-> "array", s |-> <<>>, vals |-> vals]

\* the three keys whose arrays are emitted
ListKeys ==
    { <<"m","m","i","o","-","r","e","g","i","o","n","s">>,
      <<"v","i","r","t","i","o","-","m","m","i","o","-","r","e","g","i","o","n","s">>,
      <<"p","c","i","-","r","a","n","g","e","s">> }

\* ElemOk without the as_str().unwrap() of the entries
ElemOkAnyType(r) == r.kind = "array" /\ Len(r.vals) >= 2

\* r.as_array().unwrap(), r.get(0).unwrap().as_str().unwrap() and the same of
\* r.get(1): none of them panics
ElemOk(r) ==
    /\ r.kind = "array"
    /\ Len(r.vals) >= 2
    /\ r.vals[1].kind = "str"
    /\ r.vals[2].kind = "str"

PairLine(r) == <<"    (">> \o r.vals[1].s \o <<", ">> \o r.vals[2].s \o <<"),">>

RECURSIVE EmitRegions(_)
\* the loop over regions.iter(): the text written, and whether an unwrap panicked
EmitRegions(regions) ==
    IF regions = <<>> THEN [text |-> <<>>, ok |-> TRUE]
    ELSE IF ~ElemOk(Head(regions)) THEN [text |-> <<>>, ok |-> FALSE]
    ELSE LET rest == EmitRegions(Tail(regions)) IN
         [text |-> Writeln(PairLine(Head(regions))) \o rest.text, ok |-> rest.ok]

\* EmitArray without the test of the key
EmitArrayAnyKey(key, var_name, comments, regions) ==
    LET body == EmitRegions(regions) IN
    [text |-> Writeln(comments)
              \o Writeln(<<"pub const ">> \o var_name \o <<": &[(usize, usize)] = &[">>)
              \o body.text
              \o (IF body.ok THEN Writeln(<<"];">>) ELSE <<>>),
     ok |-> body.ok]

\* the Value::Array arm
EmitArray(key, var_name, comments, regions) ==
    IF key \notin ListKeys THEN [text |-> <<>>, ok |-> TRUE]
    ELSE LET body == EmitRegions(regions) IN
         [text |-> Writeln(comments)
                   \o Writeln(<<"pub const ">> \o var_name \o <<": &[(usize, usize)] = &[">>)
                   \o body.text
                   \o (IF body.ok THEN Writeln(<<"];">>) ELSE <<>>),
          ok |-> body.ok]

(***************************************************************************)
(* The toml_edit Table: a sequence of entries [key, item, prefix], in      *)
(* insertion order.  prefix is the raw prefix of the key's Decor, an        *)
(* Option.                                                                 *)
(***************************************************************************)
contains_key(table, key) == \E i \in 1..Len(table) : table[i].key = key

KeyIndex(table, key) == CHOOSE i \in 1..Len(table) : table[i].key = key

KeysOf(table) == [i \in 1..Len(table) |-> table[i].key]

\* Table::insert as a removal and a push: an existing key moves to the end
TableInsertAtEnd(table, key, item) ==
    Append(SelectSeq(table, LAMBDA e : e.key # key),
           [key |-> key, item |-> item, prefix |-> None])

\* Table::insert: the value of an existing key is replaced where it stands
\* (with a fresh Key, so a fresh Decor), a new key is appended
TableInsert(table, key, item) ==
    LET kv == [key |-> key, item |-> item, prefix |-> None] IN
    IF contains_key(table, key)
    THEN [table EXCEPT ![KeyIndex(table, key)] = kv]
    ELSE Append(table, kv)

get_comments(table, key) ==
    IF ~contains_key(table, key) THEN None
    ELSE LET prefix == table[KeyIndex(table, key)].prefix IN
         IF prefix.some THEN Some(Trim(prefix.v)) ELSE None

\* add_config without the Decor
add_config_bare(table, key, item, comments) == TableInsert(table, key, item)

add_config(table, key, item, comments) ==
    LET t == TableInsert(table, key, item) IN
    IF comments.some
    THEN [t EXCEPT ![KeyIndex(t, key)].prefix = Some(comments.v)]
    ELSE t

RECURSIVE MergeDefaultsOverwrite(_, _, _)
\* the merge without the contains_key test: the default value overwrites
MergeDefaultsOverwrite(defconfig, cfg, i) ==
    IF i > Len(defconfig) THEN cfg
    ELSE MergeDefaultsOverwrite(defconfig,
                                add_config(cfg, defconfig[i].key, defconfig[i].item,
                                           get_comments(defconfig, defconfig[i].key)),
                                i + 1)

RECURSIVE MergeDefaults(_, _, _)
\* the loop over defconfig.iter(), from entry i on
MergeDefaults(defconfig, cfg, i) ==
    IF i > Len(defconfig) THEN cfg
    ELSE LET key == defconfig[i].key IN
         MergeDefaults(defconfig,
                       IF ~contains_key(cfg, key)
                       THEN add_config(cfg, key, defconfig[i].item, get_comments(defconfig, key))
                       ELSE cfg,
                       i + 1)

(***************************************************************************)
(* Paths and files.                                                        *)
(***************************************************************************)
\* a file: missing (or unreadable), not valid TOML, or a document
Missing == [state |-> "missing", table |-> <<>>]
Unparsable == [state |-> "unparsable", table |-> <<>>]
Doc(table) == [state |-> "ok", table |-> table]

\* Result<Table>, a panic counted as a failure
Fail == [ok |-> FALSE, table |-> <<>>]
Ok(table) == [ok |-> TRUE, table |-> table]

DefconfigToml == <<"d","e","f","c","o","n","f","i","g",".","t","o","m","l">>
DotToml == <<".","t","o","m","l">>
\* CARGO_MANIFEST_DIR
RootDir == <<"/","r">>

is_absolute(path) == path # <<>> /\ Head(path) = "/"

\* PathBuf::join
Join(base, path) ==
    IF is_absolute(path) THEN path
    ELSE IF base # <<>> /\ base[Len(base)] = "/" THEN base \o path
    ELSE base \o <<"/">> \o path

ConfigDir == Join(RootDir, <<"p","l","a","t","f","o","r","m","s">>)

RECURSIVE BuiltinPlatforms(_)
\* the filter_map over read_dir: the names that end in .toml, without it
BuiltinPlatforms(listing) ==
    IF listing = <<>> THEN <<>>
    ELSE (IF StripSuffix(Head(listing), DotToml).some
          THEN <<StripSuffix(Head(listing), DotToml).v>> ELSE <<>>)
         \o BuiltinPlatforms(Tail(listing))

Contains(q, x) == \E i \in 1..Len(q) : q[i] = x

\* resolve_config_path with a relative path left as it is
resolve_without_root(platform, listing) ==
    IF ~platform.some \/ platform.v = <<>> THEN DefconfigToml
    ELSE IF Contains(BuiltinPlatforms(listing), platform.v)
         THEN Join(ConfigDir, platform.v \o DotToml)
    ELSE platform.v

\* resolve_config_path looking at the first preset listed only
resolve_first_listed(platform, listing) ==
    LET builtin_platforms == BuiltinPlatforms(listing) IN
    IF ~platform.some \/ platform.v = <<>> THEN DefconfigToml
    ELSE IF builtin_platforms # <<>> /\ Head(builtin_platforms) = platform.v
         THEN Join(ConfigDir, platform.v \o DotToml)
    ELSE IF is_absolute(platform.v) THEN platform.v
    ELSE Join(RootDir, platform.v)

\* resolve_config_path once read_dir has listed the preset directory
resolve_config_path(platform, listing) ==
    LET builtin_platforms == BuiltinPlatforms(listing) IN
    IF ~platform.some \/ platform.v = <<>> THEN DefconfigToml
    ELSE IF Contains(builtin_platforms, platform.v) THEN Join(ConfigDir, platform.v \o DotToml)
    ELSE IF is_absolute(platform.v) THEN platform.v
    ELSE Join(RootDir, platform.v)

\* the orders read_dir may list a directory in
Listings(entries) ==
    { f \in [1..Cardinality(entries) -> entries] :
        \A i, j \in 1..Cardinality(entries) : f[i] = f[j] => i = j }

\* The file a path names.  The build script runs in its package's directory,
\* so defconfig.toml and RootDir/defconfig.toml are one file; the files of the
\* preset directory hold one content, the files elsewhere another.
FileAt(path) ==
    IF path = DefconfigToml \/ path = Join(RootDir, DefconfigToml) THEN env.defFile
    ELSE IF StartsWith(path, ConfigDir \o <<"/">>) THEN env.presetFile
    ELSE env.ovrFile

\* load_config_toml: read_to_string fails, parse panics, or the table
load_config_toml(path) ==
    IF FileAt(path).state = "ok" THEN Ok(FileAt(path).table) ELSE Fail

\* gen_config_rs, the load and the merge
LoadConfigTable(path) ==
    IF path = DefconfigToml THEN load_config_toml(path)
    ELSE LET defconfig == load_config_toml(DefconfigToml) IN
         IF ~defconfig.ok THEN Fail
         ELSE LET cfg == load_config_toml(path) IN
              IF ~cfg.ok THEN Fail ELSE Ok(MergeDefaults(defconfig.table, cfg.table, 1))


S_smp == <<"s","m","p">>
S_platform == <<"p","l","a","t","f","o","r","m">>
SmpComment == <<"#"," ","N","u","m","b","e","r"," ","o","f"," ","C","P","U","s">>

\* std::env::var("AX_SMP").unwrap_or("1".into())
SmpValue(ax_smp) == IF ax_smp.some THEN ax_smp.v ELSE <<"1">>

InjectSmpInto(table, ax_smp) ==
    add_config(table, S_smp, StrItem(SmpValue(ax_smp)), Some(SmpComment))

\* config["platform"].as_str().unwrap() does not panic
PlatformOk(table) ==
    /\ contains_key(table, S_platform)
    /\ table[KeyIndex(table, S_platform)].item.kind = "str"

Header(table) ==
    Writeln(<<"// Platform constants and parameters for ">>
            \o table[KeyIndex(table, S_platform)].item.s \o <<".">>)
    \o Writeln(<<"// Generated by build.rs, DO NOT edit!", "\n">>)

\* the comment with its first '#' replaced only
DocCommentFirstMarker(table, key) ==
    LET c == IF get_comments(table, key).some THEN get_comments(table, key).v ELSE <<>> IN
    IF c # <<>> /\ Head(c) = "#" THEN <<"/","/","/">> \o Tail(c) ELSE c

\* get_comments(&config, key).unwrap_or_default().replace('#', "///")
DocComment(table, key) ==
    Replace(IF get_comments(table, key).some THEN get_comments(table, key).v ELSE <<>>,
            "#", <<"/","/","/">>)

\* one iteration of the loop over config.iter()
EmitEntry(table, i) ==
    LET key == table[i].key
        item == table[i].item
        var_name == VarName(key)
    IN  CASE item.kind = "str" ->
               [text |-> EmitString(var_name, DocComment(table, key), item.s), ok |-> TRUE]
          [] item.kind = "array" ->
               EmitArray(key, var_name, DocComment(table, key), item.elems)
          [] OTHER -> [text |-> <<>>, ok |-> TRUE]

(***************************************************************************)
(* main, step by step.                                                     *)
(***************************************************************************)
\* read_dir fails (or an entry of it does), or the path is resolved
Resolve ==
    /\ pc = "resolve"
    /\ IF ~env.dirOk
       THEN pc' = "failed" /\ UNCHANGED config_path
       ELSE /\ \E listing \in Listings(env.entries) :
                 config_path' = resolve_config_path(env.platform, listing)
            /\ pc' = "load"
    /\ UNCHANGED <<env, config, idx, output, outFile, writes, run, prevFile>>

LoadConfig ==
    /\ pc = "load"
    /\ IF LoadConfigTable(config_path).ok
       THEN pc' = "inject" /\ config' = LoadConfigTable(config_path).table
       ELSE pc' = "failed" /\ UNCHANGED config
    /\ UNCHANGED <<env, config_path, idx, output, outFile, writes, run, prevFile>>

InjectSmp ==
    /\ pc = "inject"
    /\ config' = InjectSmpInto(config, env.ax_smp)
    /\ pc' = "header"
    /\ UNCHANGED <<env, config_path, idx, output, outFile, writes, run, prevFile>>

WriteHeader ==
    /\ pc = "header"
    /\ IF PlatformOk(config)
       THEN pc' = "emit" /\ output' = Header(config) /\ idx' = 1
       ELSE pc' = "failed" /\ UNCHANGED <<output, idx>>
    /\ UNCHANGED <<env, config_path, config, outFile, writes, run, prevFile>>

EmitKey ==
    /\ pc = "emit"
    /\ idx <= Len(config)
    /\ LET e == EmitEntry(config, idx) IN
       /\ output' = output \o e.text
       /\ IF e.ok THEN pc' = "emit" /\ idx' = idx + 1
          ELSE pc' = "failed" /\ UNCHANGED idx
    /\ UNCHANGED <<env, config_path, config, outFile, writes, run, prevFile>>

\* gen_config_rs returns; main reads OUT_DIR and writes the file (what main
\* prints for cargo is left out)
WriteFile ==
    /\ pc = "emit"
    /\ idx > Len(config)
    /\ IF env.out = "ok"
       THEN pc' = "done" /\ outFile' = Some(output) /\ writes' = writes + 1
       ELSE pc' = "failed" /\ UNCHANGED <<outFile, writes>>
    /\ UNCHANGED <<env, config_path, config, idx, output, run, prevFile>>

Next == Resolve \/ LoadConfig \/ InjectSmp \/ WriteHeader \/ EmitKey \/ WriteFile

(***************************************************************************)
(* The inputs the model runs on.                                           *)
(***************************************************************************)
MaxKeys == 2
MaxEntries == 3

Entry(key, item, prefix) == [key |-> key, item |-> item, prefix |-> Some(prefix)]

S_arch == <<"a","r","c","h">>
S_ticks == <<"t","i","c","k","s">>
S_mmio == <<"m","m","i","o","-","r","e","g","i","o","n","s">>
S_virtio == <<"v","i","r","t","i","o","-","m","m","i","o","-","r","e","g","i","o","n","s">>
S_pci == <<"p","c","i","-","r","a","n","g","e","s">>
S_features == <<"f","e","a","t","u","r","e","s">>
S_cnt == <<"c","n","t">>
S_SMP == <<"S","M","P">>

Pair(a, b) == ArrVal(<<StrVal(a), StrVal(b)>>)

\* entries of a default document: comments of every shape
DefEntries ==
    { Entry(S_platform, StrItem(<<"d","u","m","m","y">>), <<"#"," ","p","l","a","t","\n">>),
      Entry(S_smp, StrItem(<<"2">>), <<"#"," ","c","p","u","s","\n">>),
      Entry(S_arch, StrItem(<<"n","o","n","e">>), <<"\n","#"," ","a"," ","#","1","\n">>),
      Entry(S_mmio, ArrItem(<<Pair(<<"0","x","1","0">>, <<"0","x","2","0">>)>>), <<"#"," ","i","o","\n","#"," ","2","\n">>),
      Entry(S_ticks, StrItem(<<"1","_","0","0","0">>), <<>>) }

\* entries of a platform document
OvrEntries ==
    { Entry(S_platform, StrItem(<<"q","e","m","u">>), <<"#"," ","q","\n">>),
      Entry(S_smp, StrItem(<<"8">>), <<>>),
      Entry(S_arch, StrItem(<<"0","x","1","F">>), <<>>),
      Entry(S_mmio, ArrItem(<<Pair(<<"0","x","3","0">>, <<"0","x","4","0">>), Pair(<<"0","x","5","0">>, <<"0","x","6","0">>)>>), <<>>),
      Entry(S_features, ArrItem(<<Pair(<<"1">>, <<"2">>)>>), <<"#"," ","f","\n">>),
      Entry(S_cnt, OtherItem, <<"#"," ","n","\n">>) }

\* the documents of at most n entries, no key twice
Tables(entries, n) ==
    UNION { { t \in [1..k -> entries] : \A i, j \in 1..k : t[i].key = t[j].key => i = j }
            : k \in 0..n }

DefaultDoc ==
    << Entry(S_platform, StrItem(<<"d","u","m","m","y">>), <<"#"," ","p","l","a","t","\n">>),
       Entry(S_smp, StrItem(<<"2">>), <<"#"," ","c","p","u","s","\n">>),
       Entry(S_arch, StrItem(<<"n","o","n","e">>), <<"\n","#"," ","a"," ","#","1","\n">>),
       Entry(S_mmio, ArrItem(<<Pair(<<"0","x","1","0">>, <<"0","x","2","0">>)>>), <<"#"," ","i","o","\n","#"," ","2","\n">>),
       Entry(S_ticks, StrItem(<<"1","_","0","0","0">>), <<>>) >>

PlatformEntry == Entry(S_platform, StrItem(<<"q","e","m","u">>), <<"#"," ","q","\n">>)

\* platform documents for the error paths and the shapes of a list
SpecialDocs ==
    { <<>>,
      <<PlatformEntry>>,
      \* an element with one entry
      <<PlatformEntry,
        Entry(S_mmio, ArrItem(<<Pair(<<"0","x","1">>, <<"0","x","2">>), ArrVal(<<StrVal(<<"0","x","3">>)>>)>>), <<"#"," ","i","o","\n">>)>>,
      \* an element with three entries
      <<PlatformEntry,
        Entry(S_mmio, ArrItem(<<ArrVal(<<StrVal(<<"0","x","1">>), StrVal(<<"0","x","2">>), StrVal(<<"0","x","3">>)>>)>>), <<>>)>>,
      \* a second entry that is no string
      <<PlatformEntry,
        Entry(S_pci, ArrItem(<<ArrVal(<<StrVal(<<"0","x","1">>), IntVal>>)>>), <<>>)>>,
      \* an element that is no array
      <<Entry(S_virtio, ArrItem(<<StrVal(<<"0","x","1">>)>>), <<>>), PlatformEntry>>,
      \* an empty list, and a list of a key that is not emitted with a bad element
      <<Entry(S_pci, ArrItem(<<>>), <<"#"," ","p","c","i","\n">>), PlatformEntry,
        Entry(S_features, ArrItem(<<StrVal(<<"x">>)>>), <<"#"," ","f","\n">>)>>,
      \* platform is no string
      <<Entry(S_platform, OtherItem, <<>>)>>,
      \* a key that differs from smp by case only
      <<PlatformEntry, Entry(S_SMP, StrItem(<<"3">>), <<>>)>> }

P_q == <<"q">>
P_b == <<"b">>
P_abs == <<"/","a">>

\* file names of the preset directory
EntryNames == { <<"q",".","t","o","m","l">>, <<"b",".","t","o","m","l">>, <<"b">>,
                <<"x",".","m","d">>, <<".","t","o","m","l">> }

SmpValues == { None, Some(<<>>), Some(<<"4">>), Some(<<"x">>) }

\* AX_PLATFORM, the preset directory (its names, whether it can be listed), the
\* files, AX_SMP, and OUT_DIR: "ok", "unset", or "unwritable"
Inputs(platform, entries, dirOk, defFile, presetFile, ovrFile, ax_smp, out) ==
    [platform |-> platform, entries |-> entries, dirOk |-> dirOk, defFile |-> defFile,
     presetFile |-> presetFile, ovrFile |-> ovrFile, ax_smp |-> ax_smp, out |-> out]

Start ==
    /\ pc = "resolve"
    /\ config_path = <<>>
    /\ config = <<>>
    /\ idx = 0
    /\ output = <<>>
    /\ outFile = None
    /\ writes = 0
    /\ run = 1
    /\ prevFile = None

\* documents of every shape under a platform given as a path
InitDocs ==
    /\ \E d \in Tables(DefEntries, MaxKeys), o \in Tables(OvrEntries, MaxKeys),
          smp \in {None, Some(<<"4">>)} :
          env = Inputs(Some(P_abs), {}, TRUE, Doc(d), Missing, Doc(o), smp, "ok")
    /\ Start

\* every environment and every failure over a few documents
InitEnv ==
    /\ \E platform \in {None, Some(<<>>), Some(P_q), Some(P_abs)},
          dirOk \in BOOLEAN,
          defFile \in {Missing, Unparsable, Doc(DefaultDoc)},
          ovrFile \in {Missing, Unparsable} \cup {Doc(d) : d \in SpecialDocs},
          smp \in SmpValues,
          out \in {"ok", "unset", "unwritable"} :
          env = Inputs(platform, {<<"q",".","t","o","m","l">>}, dirOk, defFile, ovrFile, ovrFile, smp, out)
    /\ Start

Init == InitDocs \/ InitEnv

Spec == Init /\ [][Next]_vars

(***************************************************************************)
(* The path resolver alone, over every platform and preset directory.      *)
(***************************************************************************)
Platforms ==
    { None, Some(<<>>), Some(P_q), Some(P_b), Some(P_abs),
      Some(DefconfigToml), Some(<<"q",".","t","o","m","l">>) }

InitResolve ==
    /\ \E platform \in Platforms,
          entries \in { e \in SUBSET EntryNames : Cardinality(e) <= MaxEntries },
          dirOk \in BOOLEAN :
          env = Inputs(platform, entries, dirOk, Doc(DefaultDoc), Doc(<<PlatformEntry>>),
                       Doc(<<>>), None, "ok")
    /\ Start

SpecResolve == InitResolve /\ [][Next]_vars

(***************************************************************************)
(* Two invocations of the build script on the same inputs.                 *)
(***************************************************************************)
Rerun ==
    /\ pc \in {"done", "failed"}
    /\ run = 1
    /\ run' = 2
    /\ prevFile' = outFile
    /\ pc' = "resolve"
    /\ config_path' = <<>>
    /\ config' = <<>>
    /\ idx' = 0
    /\ output' = <<>>
    /\ outFile' = None
    /\ writes' = 0
    /\ UNCHANGED env

InitTwice ==
    /\ \E platform \in {None, Some(P_q), Some(P_b), Some(P_abs)},
          entries \in { e \in SUBSET {<<"q",".","t","o","m","l">>, <<"b",".","t","o","m","l">>, <<"x",".","m","d">>} :
                          Cardinality(e) <= MaxEntries },
          dirOk \in BOOLEAN,
          defFile \in {Missing, Doc(DefaultDoc)},
          presetFile \in {Unparsable, Doc(<<PlatformEntry>>)},
          ovrFile \in {Missing} \cup {Doc(d) : d \in SpecialDocs},
          smp \in {None, Some(<<"4">>)},
          out \in {"ok", "unset"} :
          env = Inputs(platform, entries, dirOk, defFile, presetFile, ovrFile, smp, out)
    /\ Start

NextTwice == Next \/ Rerun

SpecTwice == InitTwice /\ [][NextTwice]_vars

(***************************************************************************)
(* The scalar arm of the emitter alone, over every short string.           *)
(***************************************************************************)
NumAlphabet == {"0", "7", "f", "F", "g", "x", "X", "_", "+", "-"}

Strings(alphabet, n) == UNION { [1..k -> alphabet] : k \in 0..n }

\* the examples of the numeric detection, and values around usize::MAX
NumSamples ==
    { <<"4","2">>, <<"1","_","0","0","0">>, <<"0","x","1","F">>, <<"v","1",".","0">>,
      <<"1","8","4","4","6","7","4","4","0","7","3","7","0","9","5","5","1","6","1","5">>, <<"1","8","4","4","6","7","4","4","0","7","3","7","0","9","5","5","1","6","1","6">>,
      <<"0","0","1","8","_","4","4","6","_","7","4","4","_","0","7","3","_","7","0","9","_","5","5","1","_","6","1","5">>, <<"9","9","9","9","9","9","9","9","9","9","9","9","9","9","9","9","9","9","9","9">>,
      <<"0","x","+","f">>,
      <<"0","x","f","f","f","f","_","f","f","f","f","_","f","f","f","f","_","f","f","f","f">>, <<"0","x","1","_","0","0","0","0","_","0","0","0","0","_","0","0","0","0","_","0","0","0","0">>, <<"0","x","0","_","f","f","f","f","_","f","f","f","f","_","f","f","f","f","_","f","f","f","f">> }

ClassifyScalar ==
    /\ pc = "scalar"
    /\ output' = EmitString(VarName(env.key), env.comments, env.s)
    /\ pc' = "scalar_done"
    /\ UNCHANGED <<env, config_path, config, idx, outFile, writes, run, prevFile>>

InitNum ==
    /\ \E s \in Strings(NumAlphabet, MaxLen) \cup NumSamples,
          key \in {S_arch, S_mmio},
          comments \in {<<>>, <<"/","/","/"," ","c">>} :
          env = [s |-> s, key |-> key, comments |-> comments]
    /\ pc = "scalar"
    /\ config_path = <<>>
    /\ config = <<>>
    /\ idx = 0
    /\ output = <<>>
    /\ outFile = None
    /\ writes = 0
    /\ run = 1
    /\ prevFile = None

SpecNum == InitNum /\ [][ClassifyScalar]_vars

(***************************************************************************)
(* What the claims are stated with: the text of an output, and the text a  *)
(* declaration is expected to have.                                        *)
(***************************************************************************)
IsAt(seg, text, i) == i + Len(seg) - 1 <= Len(text) /\ SubSeq(text, i, i + Len(seg) - 1) = seg

Occurs(seg, text) == \E i \in 1..Len(text) : IsAt(seg, text, i)

RECURSIVE Flatten(_)
Flatten(texts) == IF texts = <<>> THEN <<>> ELSE Head(texts) \o Flatten(Tail(texts))

\* the tokens that follow the name of a constant in a declaration
DeclOpeners == {": usize = ", ": &str = \"", ": &[(usize, usize)] = &["}

\* how many declarations of the constant `name` a text holds
CountDecls(name, text) ==
    Cardinality({ i \in 1..Len(text) :
        \E op \in DeclOpeners : IsAt(<<"pub const ">> \o name \o <<op>>, text, i) })

\* whether gen_config_rs is to emit a declaration for the entry
Emits(e) == e.item.kind = "str" \/ (e.item.kind = "array" /\ e.key \in ListKeys)

\* the declaration expected of an entry, without its comment
ExpDecl(e) ==
    IF e.item.kind = "str"
    THEN Writeln(IF is_num(e.item.s) THEN UsizeDecl(VarName(e.key), e.item.s)
                 ELSE StrDecl(VarName(e.key), e.item.s))
    ELSE IF e.item.kind = "array" /\ e.key \in ListKeys
    THEN Writeln(<<"pub const ">> \o VarName(e.key) \o <<": &[(usize, usize)] = &[">>)
         \o Flatten([i \in 1..Len(e.item.elems) |-> Writeln(PairLine(e.item.elems[i]))])
         \o Writeln(<<"];">>)
    ELSE <<>>

\* the comment line expected of an entry: its trimmed comment, every '#' as ///
ExpCommentLine(e) ==
    Writeln(Replace(IF e.prefix.some THEN Trim(e.prefix.v) ELSE <<>>, "#", <<"/","/","/">>))

\* the default document and the document the resolved path names
DefTable == env.defFile.table
LoadedTable == FileAt(config_path).table
KeySet(table) == { table[i].key : i \in 1..Len(table) }
\* the keys of the platform document: none when defconfig.toml itself is loaded
OvrKeys == IF config_path = DefconfigToml THEN {} ELSE KeySet(LoadedTable)

(***************************************************************************)
(* C1: the output holds exactly one declaration of SMP, a usize constant   *)
(* whose literal is AX_SMP when it is set and not empty, and 1 otherwise.  *)
(***************************************************************************)
C1_SmpInjection ==
    pc = "done" =>
        LET lit == IF env.ax_smp.some /\ env.ax_smp.v # <<>> THEN env.ax_smp.v ELSE <<"1">> IN
        /\ CountDecls(S_SMP, outFile.v) = 1
        /\ Occurs(Writeln(UsizeDecl(S_SMP, lit)), outFile.v)

(***************************************************************************)
(* C2: merge precedence.                                                   *)
(***************************************************************************)
\* for the keys of `keys` that both documents hold: the declaration is the
\* platform document's, whole, and the default document's is not emitted
MergePrecedence(keys) ==
    (pc = "done" /\ config_path # DefconfigToml) =>
        \A i \in 1..Len(LoadedTable), j \in 1..Len(DefTable) :
            (LoadedTable[i].key = DefTable[j].key /\ LoadedTable[i].key \in keys) =>
                LET o == ExpDecl(LoadedTable[i])
                    d == ExpDecl(DefTable[j])
                IN  /\ o # <<>> => ( /\ Occurs(o, outFile.v)
                                     /\ CountDecls(VarName(LoadedTable[i].key), outFile.v) = 1 )
                    /\ (d # <<>> /\ d # o) => ~Occurs(d, outFile.v)

\* C2 as claimed: for every key present in both documents the emitted value is
\* the platform document's and never the default's
C2_MergePrecedenceAllKeys == MergePrecedence(KeySet(DefTable))

\* C2 amended: for every key other than smp present in both documents the
\* emitted value is the platform document's, a list taken whole, and never the
\* default's
C2_MergePrecedence == MergePrecedence(KeySet(DefTable) \ {S_smp})

C2_Witness ==
    /\ pc = "done"
    /\ config_path # DefconfigToml
    /\ \E i \in 1..Len(LoadedTable), j \in 1..Len(DefTable) :
          /\ LoadedTable[i].key = DefTable[j].key
          /\ LoadedTable[i].item.kind = "array"
          /\ DefTable[j].item.kind = "array"
          /\ LoadedTable[i].item # DefTable[j].item
          /\ Occurs(ExpDecl(LoadedTable[i]), outFile.v)

(***************************************************************************)
(* C3: default fill.                                                       *)
(***************************************************************************)
DefaultFill(keys) ==
    /\ pc \in {"inject", "header", "emit", "done"} =>
          \A j \in 1..Len(DefTable) : contains_key(config, DefTable[j].key)
    /\ pc = "done" =>
          \A j \in 1..Len(DefTable) :
              (DefTable[j].key \in keys \ OvrKeys /\ Emits(DefTable[j])) =>
                  Occurs(ExpCommentLine(DefTable[j]) \o ExpDecl(DefTable[j]), outFile.v)

\* C3 as claimed: every key of the default document is in the merged config, and
\* a key only the default document holds is emitted with the default's value and
\* comment
C3_DefaultFillAllKeys == DefaultFill(KeySet(DefTable))

\* C3 amended: the same, for every key other than smp
C3_DefaultFill == DefaultFill(KeySet(DefTable) \ {S_smp})

C3_Witness ==
    /\ pc = "done"
    /\ config_path # DefconfigToml
    /\ \E j \in 1..Len(DefTable) :
          /\ DefTable[j].key \notin OvrKeys \cup {S_smp}
          /\ DefTable[j].prefix.some
          /\ Trim(DefTable[j].prefix.v) # <<>>
          /\ Occurs(ExpCommentLine(DefTable[j]) \o ExpDecl(DefTable[j]), outFile.v)

(***************************************************************************)
(* C4: numeric detection.                                                  *)
(***************************************************************************)
AllDigits(t, radix) == t # <<>> /\ \A i \in 1..Len(t) : IsDigit(t[i], radix)

WithoutSeparators(s) == SelectSeq(s, LAMBDA c : c # "_")

\* a non-negative decimal integer, or 0x and a non-negative hexadecimal one
PlainNumeric(s) ==
    LET t == WithoutSeparators(s) IN
    \/ AllDigits(t, 10)
    \/ Len(t) >= 2 /\ t[1] = "0" /\ t[2] = "x" /\ AllDigits(SubSeq(t, 3, Len(t)), 16)

Unsigned(t) == IF t # <<>> /\ t[1] = "+" THEN SubSeq(t, 2, Len(t)) ELSE t

\* the same with the sign str::parse accepts, and within usize
UsizeNumeric(s) ==
    LET t == WithoutSeparators(s) IN
    \/ AllDigits(Unsigned(t), 10) /\ FitsUsize(Unsigned(t), 10)
    \/ /\ Len(t) >= 2 /\ t[1] = "0" /\ t[2] = "x"
       /\ AllDigits(Unsigned(SubSeq(t, 3, Len(t))), 16)
       /\ FitsUsize(Unsigned(SubSeq(t, 3, Len(t))), 16)

ScalarDecl(numeric) ==
    pc = "scalar_done" =>
        output = Writeln(env.comments)
                 \o Writeln(IF numeric THEN UsizeDecl(VarName(env.key), env.s)
                            ELSE StrDecl(VarName(env.key), env.s))

\* C4 as claimed: a value is declared usize, verbatim, exactly when without its
\* separators it is a non-negative decimal integer or 0x and a non-negative
\* hexadecimal integer, and as a quoted string otherwise
C4_NumericDetectionPlain == ScalarDecl(PlainNumeric(env.s))

\* C4 amended: exactly when without its separators it is, after an optional '+',
\* a decimal integer that fits usize, or 0x and, after an optional '+', a
\* hexadecimal integer that fits usize
C4_NumericDetection == ScalarDecl(UsizeNumeric(env.s))

C4_Witness ==
    /\ pc = "scalar_done"
    /\ env.s = <<"1","_","0","0","0">>
    /\ output = Writeln(env.comments) \o Writeln(UsizeDecl(VarName(env.key), env.s))

(***************************************************************************)
(* C5: list restriction.                                                   *)
(***************************************************************************)
\* every element is a list of two strings
WellFormed(elems) ==
    \A i \in 1..Len(elems) :
        /\ elems[i].kind = "array"
        /\ Len(elems[i].vals) = 2
        /\ \A k \in 1..2 : elems[i].vals[k].kind = "str"

\* C5: a list under a key that is not one of the three names leaves no
\* declaration and no comment line in the output; a well-formed list under one
\* of the three names leaves exactly one declaration, a pair for each element in
\* the order of the elements
C5_ListRestriction ==
    pc = "done" =>
        \A i \in 1..Len(config) :
            config[i].item.kind = "array" =>
                IF config[i].key \notin ListKeys
                THEN /\ CountDecls(VarName(config[i].key), outFile.v) = 0
                     /\ ExpCommentLine(config[i]) # <<"\n">> =>
                            ~Occurs(ExpCommentLine(config[i]), outFile.v)
                ELSE WellFormed(config[i].item.elems) =>
                     /\ CountDecls(VarName(config[i].key), outFile.v) = 1
                     /\ Occurs(Writeln(<<"pub const ">> \o VarName(config[i].key)
                                       \o <<": &[(usize, usize)] = &[">>)
                               \o Flatten([k \in 1..Len(config[i].item.elems) |->
                                    <<"    (">> \o config[i].item.elems[k].vals[1].s
                                    \o <<", ">> \o config[i].item.elems[k].vals[2].s
                                    \o <<"),", "\n">>])
                               \o <<"];", "\n">>,
                               outFile.v)

C5_Witness ==
    /\ pc = "done"
    /\ \E i, j \in 1..Len(config) :
          /\ config[i].item.kind = "array"
          /\ config[i].key \notin ListKeys
          /\ WellFormed(config[i].item.elems)
          /\ config[i].item.elems # <<>>
          /\ config[j].item.kind = "array"
          /\ config[j].key \in ListKeys
          /\ Len(config[j].item.elems) >= 2

(***************************************************************************)
(* C6: no partial output.                                                  *)
(***************************************************************************)
\* the file is written at most once, never by a run that fails, and only with
\* the text gen_config_rs has finished
AtomicOutput ==
    /\ writes <= 1
    /\ pc = "failed" => (~outFile.some /\ writes = 0)
    /\ outFile.some =>
          (pc = "done" /\ writes = 1 /\ idx > Len(config) /\ outFile.v = output)

\* the files the run reads are there and parse
LoadInputsOk ==
    /\ FileAt(config_path).state = "ok"
    /\ config_path # DefconfigToml => env.defFile.state = "ok"

\* config holds the merged document (it holds smp from the injection on)
Merged == pc \in {"inject", "header", "emit", "done"} \/ contains_key(config, S_smp)

\* an element that is not a list of exactly two strings
NotAPair(r) ==
    \/ r.kind # "array"
    \/ Len(r.vals) # 2
    \/ \E k \in 1..Len(r.vals) : r.vals[k].kind # "str"

\* an element that is no list, has fewer than two entries, or whose first or
\* second entry is no string
NoPairToRead(r) ==
    \/ r.kind # "array"
    \/ Len(r.vals) < 2
    \/ \E k \in 1..2 : r.vals[k].kind # "str"

\* one of the failures of a stage, a bad list element being one `bad` holds of
StageFails(bad(_)) ==
    \/ ~env.dirOk
    \/ pc # "resolve" /\ ~LoadInputsOk
    \/ Merged /\ ~contains_key(config, S_platform)
    \/ Merged /\ contains_key(config, S_platform)
              /\ config[KeyIndex(config, S_platform)].item.kind # "str"
    \/ Merged /\ \E i \in 1..Len(config) :
                    /\ config[i].key \in ListKeys
                    /\ config[i].item.kind = "array"
                    /\ \E k \in 1..Len(config[i].item.elems) : bad(config[i].item.elems[k])

C7_PathResolution ==
    (pc # "resolve" /\ env.dirOk) =>
        config_path =
            IF ~env.platform.some \/ Len(env.platform.v) = 0 THEN <<"d","e","f","c","o","n","f","i","g",".","t","o","m","l">>
            ELSE IF (env.platform.v \o <<".","t","o","m","l">>) \in env.entries
                 THEN <<"/","r","/","p","l","a","t","f","o","r","m","s","/">> \o env.platform.v \o <<".","t","o","m","l">>
            ELSE IF env.platform.v[1] = "/" THEN env.platform.v
            ELSE <<"/","r","/">> \o env.platform.v

C7_Witness ==
    /\ pc = "load"
    /\ env.platform = Some(P_b)
    /\ {<<"b">>, <<"b",".","t","o","m","l">>} \subseteq env.entries
    /\ config_path = <<"/","r","/","p","l","a","t","f","o","r","m","s","/","b",".","t","o","m","l">>

(***************************************************************************)
(* C8: comment emission.                                                   *)
(***************************************************************************)
RECURSIVE MarkersOnly(_, _)
\* a comment with '#' as /// where it starts a line of the comment
MarkersOnly(c, lineStart) ==
    IF c = <<>> THEN <<>>
    ELSE IF lineStart /\ Head(c) = "#" THEN <<"/","/","/">> \o MarkersOnly(Tail(c), FALSE)
    ELSE <<Head(c)>> \o MarkersOnly(Tail(c), Head(c) = "\n" \/ (lineStart /\ Head(c) = " "))

EntryComment(e) == IF e.prefix.some THEN Trim(e.prefix.v) ELSE <<>>

\* the output, the comment of each emitted entry written by `commentText`
OutputWith(commentText(_)) ==
    Header(config)
    \o Flatten([i \in 1..Len(config) |->
                  IF Emits(config[i]) THEN commentText(config[i]) \o ExpDecl(config[i])
                  ELSE <<>>])

MarkerComment(e) ==
    IF EntryComment(e) = <<>> THEN <<>> ELSE Writeln(MarkersOnly(EntryComment(e), TRUE))

\* C8 as claimed: each declaration directly follows its key's comment, the
\* marker '#' written as /// and the rest unchanged, and a key without a
\* comment gets no line before its declaration
C8_CommentEmissionMarker == pc = "done" => outFile.v = OutputWith(MarkerComment)

\* C8 amended: each declaration directly follows one line group holding its
\* key's trimmed comment with every '#' in it written as ///; for a key without
\* a comment that line is empty
C8_CommentEmission == pc = "done" => outFile.v = OutputWith(ExpCommentLine)

C8_Witness ==
    /\ pc = "done"
    /\ \E i, j \in 1..Len(config) :
          /\ Emits(config[i]) /\ EntryComment(config[i]) = <<>>
          /\ Emits(config[j]) /\ Occurs(<<" ","#">>, EntryComment(config[j]))

(***************************************************************************)
(* C9: two runs on the same inputs.                                        *)
(***************************************************************************)
\* C9: the second run on the same files and environment leaves the same output
\* file as the first, or both fail
C9_Idempotence == (run = 2 /\ pc \in {"done", "failed"}) => outFile = prevFile

C9_Witness ==
    /\ run = 2
    /\ pc = "done"
    /\ outFile.some
    /\ outFile = prevFile
    /\ Cardinality(env.entries) >= 2
    /\ StartsWith(config_path, ConfigDir)

(***************************************************************************)
(* C10: output ordering.                                                   *)
(***************************************************************************)
\* the keys in the order expected: the loaded document's, then the default
\* document's that it lacks, then smp unless one of them
ExpectedOrder ==
    LET loaded == KeysOf(LoadedTable)
        filled == IF config_path = DefconfigToml THEN <<>>
                  ELSE SelectSeq(KeysOf(DefTable), LAMBDA k : k \notin KeySet(LoadedTable))
    IN  loaded \o filled
        \o (IF S_smp \in KeySet(LoadedTable) \cup KeySet(DefTable) THEN <<>> ELSE <<S_smp>>)

\* C10: the output opens with the line naming the platform and the warning,
\* and the declarations follow in the order of the loaded document's keys, the
\* keys filled in from the default document and smp after them unless the
\* document holds them
C10_OutputOrdering ==
    pc = "done" =>
        outFile.v =
            <<"// Platform constants and parameters for ">>
            \o config[KeyIndex(config, S_platform)].item.s \o <<".", "\n">>
            \o <<"// Generated by build.rs, DO NOT edit!", "\n", "\n">>
            \o Flatten([n \in 1..Len(ExpectedOrder) |->
                          EmitEntry(config, KeyIndex(config, ExpectedOrder[n])).text])

C10_Witness ==
    /\ pc = "done"
    /\ Len(LoadedTable) >= 2
    /\ LoadedTable[1].key = S_smp
    /\ Emits(LoadedTable[2])
    /\ \E j \in 1..Len(DefTable) : DefTable[j].key \notin KeySet(LoadedTable) /\ Emits(DefTable[j])

=============================================================================
